---- MODULE Spec2Model ----
(***************************************************************************)
(* A max-priority queue on a binary max-heap (priority_queue_project.py).  *)
(* The heap is a Python list with an auxiliary heap_size field.  The list  *)
(* is modelled as a TLA+ sequence; slot i of the list is element i+1 of    *)
(* the sequence, and negative subscripts count from the end as in Python.  *)
(***************************************************************************)
EXTENDS Integers, Sequences, FiniteSets

\* ---------------------------------------------------------------- bounds
\* Largest key the callers supply; keys are 0..MaxVal (0 is the falsy key).
MaxVal == 2
\* Longest list handed to the constructor.
MaxLen == 3
\* heap_insert is called only while the list is shorter than this.
MaxStorage == 4
\* Longest list max_heapify is called on directly.
MaxHeapifyLen == 5
\* Most nested calls or loop iterations followed when an operation's steps are listed.
StepLimit == 8
\* Longest list the operations' steps are listed on.
MaxStepsLen == 4
\* Largest node index the index functions are applied to.
MaxIndex == 20

Values == 0..MaxVal

\* -math.inf, the placeholder heap_insert appends: below every key.
NegInf == -1000

\* ------------------------------------------------ Python list subscripts
\* A[i] is defined for -len(A) <= i < len(A); anything else is IndexError.
InRange(A, i) == (0 - Len(A)) <= i /\ i < Len(A)

Pos(A, i) == IF i < 0 THEN i + Len(A) + 1 ELSE i + 1

Get(A, i) == A[Pos(A, i)]

Set(A, i, v) == [A EXCEPT ![Pos(A, i)] = v]

\* A[i], A[j] = A[j], A[i]
Swap(A, i, j) == [A EXCEPT ![Pos(A, i)] = A[Pos(A, j)], ![Pos(A, j)] = A[Pos(A, i)]]

\* bool used as a subscript: True is 1, False is 0.
BoolIndex(b) == IF b THEN 1 ELSE 0

\* Truth value of a number in a while condition: nonzero.
Truthy(x) == x # 0

\* ------------------------------------------------------ index arithmetic
left(i) == 2 * i + 1

right(i) == 2 * (i + 1)

\* Faulty variant: the parent formula of a 1-indexed heap.
parent_one_indexed(i) == i \div 2

parent(i) == (i - 1) \div 2

\* ------------------------------------------------------------- outcomes
NoError == "none"

IndexError == "IndexError"

HeapUnderflow == "heap underflow"

KeyTooSmall == "New key is smaller than current key!"

\* ------------------------------------------------------------ max_heapify
\* Faulty variant: one swap, and no descent into the child.
max_heapify_no_descent(A, hs, i) ==
    LET l == left(i)
        r == right(i)
        largest1 == IF l < hs /\ Get(A, l) > Get(A, i) THEN l ELSE i
        largest == IF r < hs /\ Get(A, r) > Get(A, largest1) THEN r ELSE largest1
    IN  [A |-> IF largest # i THEN Swap(A, i, largest) ELSE A, exc |-> NoError]

\* Faulty variant: the children are checked against len(A), not heap_size.
RECURSIVE max_heapify_list_length(_, _, _)
max_heapify_list_length(A, hs, i) ==
    LET l == left(i)
        r == right(i)
        largest1 == IF l < Len(A) /\ Get(A, l) > Get(A, i) THEN l ELSE i
        largest == IF r < Len(A) /\ Get(A, r) > Get(A, largest1) THEN r ELSE largest1
    IN  IF largest # i
        THEN max_heapify_list_length(Swap(A, i, largest), hs, largest)
        ELSE [A |-> A, exc |-> NoError]

\* Faulty variant: the right child wins a tie (>= where the code has >).
RECURSIVE max_heapify_right_on_tie(_, _, _)
max_heapify_right_on_tie(A, hs, i) ==
    LET l == left(i)
        r == right(i)
        largest1 == IF l < hs /\ Get(A, l) > Get(A, i) THEN l ELSE i
        largest == IF r < hs /\ Get(A, r) >= Get(A, largest1) THEN r ELSE largest1
    IN  IF largest # i
        THEN max_heapify_right_on_tie(Swap(A, i, largest), hs, largest)
        ELSE [A |-> A, exc |-> NoError]

\* Result: the list after the call and the exception raised, if any.
RECURSIVE max_heapify(_, _, _)
max_heapify(A, hs, i) ==
    LET l == left(i)
        r == right(i)
    IN  IF l < hs /\ ~(InRange(A, l) /\ InRange(A, i))
        THEN [A |-> A, exc |-> IndexError]
        ELSE LET largest1 == IF l < hs /\ Get(A, l) > Get(A, i) THEN l ELSE i
             IN  IF r < hs /\ ~(InRange(A, r) /\ InRange(A, largest1))
                 THEN [A |-> A, exc |-> IndexError]
                 ELSE LET largest == IF r < hs /\ Get(A, r) > Get(A, largest1)
                                     THEN r ELSE largest1
                      IN  IF largest # i
                          THEN max_heapify(Swap(A, i, largest), hs, largest)
                          ELSE [A |-> A, exc |-> NoError]

\* ---------------------------------------------------------- build_max_heap
\* The body of "for i in range(first, last - 1, -1): max_heapify(A, i)".
RECURSIVE build_loop(_, _, _, _)
build_loop(A, hs, i, last) ==
    IF i < last
    THEN [A |-> A, exc |-> NoError]
    ELSE LET h == max_heapify(A, hs, i)
         IN  IF h.exc # NoError THEN h ELSE build_loop(h.A, hs, i - 1, last)

\* Faulty variant: the loop stops before the root.
build_max_heap_skip_root(A, hs) == build_loop(A, hs, hs \div 2 - 1, 1)

\* Faulty variant: the loop starts one node too low.
build_max_heap_late_start(A, hs) == build_loop(A, hs, hs \div 2 - 2, 0)

build_max_heap(A, hs) == build_loop(A, hs, hs \div 2 - 1, 0)

\* ----------------------------------------------------------------- maximum
maximum(A) ==
    IF ~InRange(A, 0)
    THEN [ret |-> <<>>, exc |-> IndexError]
    ELSE [ret |-> <<Get(A, 0)>>, exc |-> NoError]

\* ------------------------------------------------------------- extract_max
\* Faulty variant: the root is replaced but never floated down.
extract_max_no_sift(A, hs) ==
    IF ~InRange(A, 0) \/ ~InRange(A, hs - 1)
    THEN [A |-> A, hs |-> hs, ret |-> <<>>, exc |-> IndexError,
          logged |-> IF hs < 1 THEN HeapUnderflow ELSE NoError]
    ELSE [A |-> Set(A, 0, Get(A, hs - 1)), hs |-> hs - 1, ret |-> <<Get(A, 0)>>,
          exc |-> NoError, logged |-> IF hs < 1 THEN HeapUnderflow ELSE NoError]

\* error("heap underflow") logs and returns: the code after it runs all the same.
extract_max(A, hs) ==
    LET logged == IF hs < 1 THEN HeapUnderflow ELSE NoError
    IN  IF ~InRange(A, 0) \/ ~InRange(A, hs - 1)
        THEN [A |-> A, hs |-> hs, ret |-> <<>>, exc |-> IndexError, logged |-> logged]
        ELSE LET max == Get(A, 0)
                 h   == max_heapify(Set(A, 0, Get(A, hs - 1)), hs - 1, 0)
             IN  [A |-> h.A, hs |-> hs - 1,
                  ret |-> IF h.exc = NoError THEN <<max>> ELSE <<>>,
                  exc |-> h.exc, logged |-> logged]

\* ------------------------------------------------------------ increase_key
\* while index > 0 and A[ parent(index) < A[index] ]: swap with the parent.
\* The subscript of A is the comparison, a bool, so the test reads A[1] or A[0].
RECURSIVE sift_up(_, _)
sift_up(A, index) ==
    IF index > 0 /\ Truthy(Get(A, BoolIndex(parent(index) < Get(A, index))))
    THEN sift_up(Swap(A, index, parent(index)), parent(index))
    ELSE A

\* Variant: the loop compares the parent's value with the value at index.
RECURSIVE sift_up_by_value(_, _)
sift_up_by_value(A, index) ==
    IF index > 0 /\ Get(A, parent(index)) < Get(A, index)
    THEN sift_up_by_value(Swap(A, index, parent(index)), parent(index))
    ELSE A

increase_key_by_value(A, index, newValue) ==
    IF ~InRange(A, index)
    THEN [A |-> A, exc |-> IndexError, logged |-> NoError]
    ELSE IF newValue < Get(A, index)
         THEN [A |-> A, exc |-> NoError, logged |-> KeyTooSmall]
         ELSE [A |-> sift_up_by_value(Set(A, index, newValue), index),
               exc |-> NoError, logged |-> NoError]

\* Faulty variant: the rejection logs but does not return.
increase_key_no_return(A, index, newValue) ==
    IF ~InRange(A, index)
    THEN [A |-> A, exc |-> IndexError, logged |-> NoError]
    ELSE [A |-> sift_up(Set(A, index, newValue), index), exc |-> NoError,
          logged |-> IF newValue < Get(A, index) THEN KeyTooSmall ELSE NoError]

increase_key(A, index, newValue) ==
    IF ~InRange(A, index)
    THEN [A |-> A, exc |-> IndexError, logged |-> NoError]
    ELSE IF newValue < Get(A, index)
         THEN [A |-> A, exc |-> NoError, logged |-> KeyTooSmall]
         ELSE [A |-> sift_up(Set(A, index, newValue), index), exc |-> NoError,
               logged |-> NoError]

\* ------------------------------------------------------------- heap_insert
heap_insert(A, hs, newValue) ==
    LET k == increase_key(Append(A, NegInf), (hs + 1) - 1, newValue)
    IN  [A |-> k.A, hs |-> hs + 1, exc |-> k.exc, logged |-> k.logged]

\* =================================================================== state
VARIABLES
    A,           \* the list (HeapCapable)
    heap_size,   \* A.heap_size
    built,       \* build_max_heap has run on the list
    op,          \* the last call made
    arg_index,   \* its index argument (0 when it has none)
    arg_value,   \* its value argument (0 when it has none)
    ret,         \* what it returned: <<>> for None, <<v>> for a value
    exc,         \* the exception it raised
    logged,      \* the message it passed to logging.error
    preA,        \* the list when the call was made
    preSize,     \* heap_size when the call was made
    phase,       \* how the calls so far are arranged: "new", "drain", "refill", "mixed"
    input,       \* the constructor's list, kept while phase is not "mixed"
    extracted,   \* the values extract_max returned, in order, while draining
    refilled     \* how many of them heap_insert has put back

vars == <<A, heap_size, built, op, arg_index, arg_value, ret, exc, logged,
          preA, preSize, phase, input, extracted, refilled>>

\* All lists of keys of length at most n.
ListsUpTo(n) == UNION {[1..k -> Values] : k \in 0..n}

\* HeapCapable.__init__: the list is copied and heap_size is its length.
Init ==
    /\ A \in ListsUpTo(MaxLen)
    /\ heap_size = Len(A)
    /\ built = FALSE
    /\ op = "init"
    /\ arg_index = 0
    /\ arg_value = 0
    /\ ret = <<>>
    /\ exc = NoError
    /\ logged = NoError
    /\ preA = A
    /\ preSize = Len(A)
    /\ phase = "new"
    /\ input = A
    /\ extracted = <<>>
    /\ refilled = 0

\* What every call records about itself.
Called(name, index, value) ==
    /\ op' = name
    /\ arg_index' = index
    /\ arg_value' = value
    /\ preA' = A
    /\ preSize' = heap_size

\* The calls no longer form build / drain / refill.
Mixed ==
    /\ phase' = "mixed"
    /\ input' = <<>>
    /\ extracted' = <<>>
    /\ refilled' = 0

\* MaxPriorityQueue.__init__ / the tests: build_max_heap on the fresh list.
Build ==
    /\ ~built
    /\ LET b == build_max_heap(A, heap_size)
       IN  /\ A' = b.A
           /\ exc' = b.exc
    /\ built' = TRUE
    /\ Called("build_max_heap", 0, 0)
    /\ ret' = <<>>
    /\ logged' = NoError
    /\ phase' = "drain"
    /\ UNCHANGED <<heap_size, input, extracted, refilled>>

\* maximum(A); it changes nothing, so the arrangement of calls stays as it is.
DoMaximum ==
    /\ LET m == maximum(A)
       IN  /\ ret' = m.ret
           /\ exc' = m.exc
    /\ Called("maximum", 0, 0)
    /\ logged' = NoError
    /\ UNCHANGED <<A, heap_size, built, phase, input, extracted, refilled>>

\* extract_max(A)
DoExtractMax ==
    /\ LET e == extract_max(A, heap_size)
       IN  /\ A' = e.A
           /\ heap_size' = e.hs
           /\ ret' = e.ret
           /\ exc' = e.exc
           /\ logged' = e.logged
           /\ IF phase = "drain" /\ heap_size >= 1 /\ e.exc = NoError
              THEN /\ extracted' = extracted \o e.ret
                   /\ UNCHANGED <<phase, input, refilled>>
              ELSE Mixed
    /\ Called("extract_max", 0, 0)
    /\ UNCHANGED built

\* increase_key(A, index, newValue)
DoIncreaseKey(index, newValue) ==
    /\ LET k == increase_key(A, index, newValue)
       IN  /\ A' = k.A
           /\ exc' = k.exc
           /\ logged' = k.logged
    /\ Called("increase_key", index, newValue)
    /\ ret' = <<>>
    /\ Mixed
    /\ UNCHANGED <<heap_size, built>>

\* heap_insert(A, newValue).  It continues a refill when the heap was drained to
\* empty and newValue is the next extracted value, in the order returned.
DoHeapInsert(newValue) ==
    /\ LET h == heap_insert(A, heap_size, newValue)
       IN  /\ A' = h.A
           /\ heap_size' = h.hs
           /\ exc' = h.exc
           /\ logged' = h.logged
    /\ Called("heap_insert", 0, newValue)
    /\ ret' = <<>>
    /\ IF /\ phase \in {"drain", "refill"}
          /\ Len(extracted) = Len(input)
          /\ heap_size = refilled
          /\ refilled < Len(extracted)
          /\ newValue = extracted[refilled + 1]
       THEN /\ phase' = "refill"
            /\ refilled' = refilled + 1
            /\ UNCHANGED <<input, extracted>>
       ELSE Mixed
    /\ UNCHANGED built

\* ------------------------------------------------- calls within the contract
Maximum == built /\ heap_size >= 1 /\ DoMaximum

ExtractMax == built /\ heap_size >= 1 /\ DoExtractMax

IncreaseKey ==
    /\ built
    /\ \E index \in 0..(heap_size - 1), newValue \in Values :
          DoIncreaseKey(index, newValue)

HeapInsert ==
    /\ built
    /\ Len(A) < MaxStorage
    /\ \E newValue \in Values : DoHeapInsert(newValue)

\* ---------------------------------------------- calls on an empty queue
MaximumEmpty == built /\ heap_size < 1 /\ DoMaximum

ExtractMaxEmpty == built /\ heap_size < 1 /\ DoExtractMax

\* ----------------------------------------------------------- specifications
Next == Build \/ Maximum \/ ExtractMax \/ IncreaseKey \/ HeapInsert

\* Every call the contract allows.
Spec == Init /\ [][Next]_vars

NextQueue == Build \/ Maximum \/ ExtractMax \/ HeapInsert

\* The queue used as a queue: no increase_key from outside.
SpecQueue == Init /\ [][NextQueue]_vars

NextAll == Next \/ MaximumEmpty \/ ExtractMaxEmpty

\* As Spec, and the caller may also ask an empty queue for its maximum.
SpecAll == Init /\ [][NextAll]_vars

\* ============================================================== vocabulary
\* Everything a slot can hold: a key or the placeholder.
Slots == Values \cup {NegInf}

\* The live elements A[0 .. hs-1].
Live(S, hs) == SubSeq(S, 1, hs)

\* How many times v occurs in the sequence s.
Count(s, v) == Cardinality({n \in DOMAIN s : s[n] = v})

\* s and t hold the same elements with the same multiplicities.
SameBag(s, t) == \A v \in Slots : Count(s, v) = Count(t, v)

\* s is t with one copy of x removed.
BagMinusOne(s, t, x) ==
    \A v \in Slots : Count(t, v) = Count(s, v) + (IF v = x THEN 1 ELSE 0)

NonIncreasing(s) == \A m, n \in DOMAIN s : m < n => s[m] >= s[n]

\* The max-heap property over the live range [0, hs).
IsMaxHeap(S, hs) ==
    \A i \in 0..(hs - 1) :
        /\ left(i) < hs => Get(S, i) >= Get(S, left(i))
        /\ right(i) < hs => Get(S, i) >= Get(S, right(i))

\* x is >= every live element.
AtLeastAllLive(x, S, hs) == \A i \in 0..(hs - 1) : x >= Get(S, i)

\* The largest element of a non-empty sequence.
MaxOf(s) == CHOOSE x \in {s[n] : n \in DOMAIN s} : \A n \in DOMAIN s : x >= s[n]

\* The nodes from i up to the root: i, parent(i), ..., 0.
RECURSIVE Ancestors(_)
Ancestors(i) == IF i <= 0 THEN {0} ELSE {i} \cup Ancestors(parent(i))

\* The values repeated extract_max calls return until the heap is empty.
RECURSIVE Drain(_, _)
Drain(S, hs) ==
    IF hs < 1
    THEN <<>>
    ELSE LET e == extract_max(S, hs)
         IN  IF e.exc # NoError THEN <<>> ELSE e.ret \o Drain(e.A, e.hs)

\* ================================================================== claims

\* C1: in every state reached from build_max_heap by extract_max, increase_key
\* (live index, newValue >= A[index]) and heap_insert calls, the max-heap
\* property holds over the live range.
HeapPropertyAlways == built => IsMaxHeap(A, heap_size)

\* C2: extract_max on a valid max-heap with heap_size >= 1 returns an element
\* that is >= every live element, decrements heap_size by exactly one, leaves
\* the live multiset equal to the previous one minus one copy of the returned
\* element, and leaves the max-heap property holding over the new live range.
ExtractMaxCorrect ==
    (op = "extract_max" /\ preSize >= 1 /\ IsMaxHeap(preA, preSize)) =>
        /\ exc = NoError
        /\ Len(ret) = 1
        /\ AtLeastAllLive(ret[1], preA, preSize)
        /\ heap_size = preSize - 1
        /\ BagMinusOne(Live(A, heap_size), Live(preA, preSize), ret[1])
        /\ IsMaxHeap(A, heap_size)

\* C2 witness: an extraction from a valid heap of three or more elements in
\* which the element moved to the root had to be floated down.
ExtractMaxWitness ==
    /\ op = "extract_max"
    /\ preSize >= 3
    /\ IsMaxHeap(preA, preSize)
    /\ Get(A, 0) # Get(preA, preSize - 1)

\* C3: build_max_heap followed by extract_max until the heap is empty returns
\* a non-increasing sequence whose multiset equals the multiset of the input.
DrainOrdered ==
    phase = "drain" =>
        /\ NonIncreasing(extracted)
        /\ heap_size = 0 => SameBag(extracted, input)

\* C3 witness: a three-element input with a duplicate, not already in
\* extraction order, has been drained to empty.
DrainWitness ==
    /\ phase = "drain"
    /\ heap_size = 0
    /\ Len(input) = 3
    /\ Len(extracted) = 3
    /\ input[1] = input[2]
    /\ input[1] < input[3]

\* C4: build_max_heap raises nothing, leaves heap_size equal to the input
\* length, leaves the list a permutation of the input, establishes the
\* max-heap property, and leaves an empty or one-element list unchanged.
BuildCorrect ==
    op = "build_max_heap" =>
        /\ exc = NoError
        /\ heap_size = Len(preA)
        /\ Len(A) = Len(preA)
        /\ SameBag(A, preA)
        /\ IsMaxHeap(A, heap_size)
        /\ Len(preA) <= 1 => A = preA

\* C4 witness: a three-element list that build_max_heap had to rearrange.
BuildWitness ==
    /\ op = "build_max_heap"
    /\ Len(preA) = 3
    /\ A # preA

\* C5: heap_insert(A, v) increases heap_size by exactly one, and draining the
\* heap afterwards returns v after every greater live element and before
\* every smaller one.
InsertRanked ==
    op = "heap_insert" =>
        /\ heap_size = preSize + 1
        /\ LET d == Drain(A, heap_size)
           IN  \E k \in DOMAIN d :
                  /\ d[k] = arg_value
                  /\ \A n \in DOMAIN d :
                        /\ d[n] > arg_value => n < k
                        /\ d[n] < arg_value => n > k

\* C6: increase_key(A, i, v) with a live i and v >= A[i] on a valid max-heap
\* moves v up from i past strictly smaller ancestors only, so v ends at the
\* root or under a parent >= v, the ancestors it passed each moved down one
\* level, every other slot is unchanged, and the max-heap property holds.
IncreaseKeySiftsUp ==
    ( /\ op = "increase_key"
      /\ 0 <= arg_index
      /\ arg_index < preSize
      /\ arg_value >= Get(preA, arg_index)
      /\ IsMaxHeap(preA, preSize) ) =>
        /\ exc = NoError
        /\ \E j \in Ancestors(arg_index) :
              /\ Get(A, j) = arg_value
              /\ j = 0 \/ Get(A, parent(j)) >= arg_value
              /\ \A s \in 0..(Len(A) - 1) :
                    IF s \in Ancestors(arg_index) /\ s > j
                    THEN /\ Get(A, s) = Get(preA, parent(s))
                         /\ Get(preA, parent(s)) < arg_value
                    ELSE s # j => Get(A, s) = Get(preA, s)
        /\ IsMaxHeap(A, heap_size)

EmptyQueueRejected ==
    (op \in {"maximum", "extract_max"} /\ preSize = 0) =>
        /\ exc # NoError \/ logged # NoError
        /\ ret = <<>>
        /\ A = preA
        /\ heap_size = preSize

\* C9: with heap_size >= 1, maximum returns a value >= every live element and
\* changes neither the list nor heap_size.
MaximumIsLargest ==
    (op = "maximum" /\ preSize >= 1) =>
        /\ Len(ret) = 1
        /\ AtLeastAllLive(ret[1], A, heap_size)
        /\ A = preA
        /\ heap_size = preSize

\* C10: building, extracting everything and re-inserting the extracted values
\* in the order returned yields live elements equal to the input as a
\* multiset, and maximum then returns the largest input value.
RoundTripRestores ==
    (phase = "refill" /\ refilled = Len(input)) =>
        /\ SameBag(Live(A, heap_size), input)
        /\ maximum(A).ret = <<MaxOf(input)>>

\* C11: in every reachable state, calls on an empty queue included, heap_size
\* is a non-negative integer no greater than the length of the list.
HeapSizeInRange == 0 <= heap_size /\ heap_size <= Len(A)

\* C12: over any interleaving of extract_max (on a non-empty heap) and
\* heap_insert, the live multiset follows the calls: extract_max removes one
\* copy of the value it returns, heap_insert adds one copy of its value, and
\* the slot heap_insert hands to increase_key is the slot it just appended.
LiveBagFollowsCalls ==
    /\ (op = "extract_max" /\ preSize >= 1) =>
          /\ Len(ret) = 1
          /\ BagMinusOne(Live(A, heap_size), Live(preA, preSize), ret[1])
    /\ op = "heap_insert" =>
          /\ BagMinusOne(Live(preA, preSize), Live(A, heap_size), arg_value)
          /\ (preSize + 1) - 1 = Len(Append(preA, NegInf)) - 1

\* C13: extract_max, increase_key and heap_insert are all-or-nothing: the call
\* either completes with the max-heap property holding, or it reports an error
\* and the list and heap_size are as they were before the call.
AllOrNothing ==
    op \in {"extract_max", "increase_key", "heap_insert"} =>
        IF exc # NoError \/ logged # NoError
        THEN A = preA /\ heap_size = preSize
        ELSE IsMaxHeap(A, heap_size)

\* ============================================== max_heapify called directly
\* A list with heap_size set by hand to any value up to its length, as in
\* test_max_heapify_reduced_heap_size; build_max_heap has not run on it.
InitHeapify ==
    /\ A \in ListsUpTo(MaxHeapifyLen)
    /\ heap_size \in 0..Len(A)
    /\ built = FALSE
    /\ op = "init"
    /\ arg_index = 0
    /\ arg_value = 0
    /\ ret = <<>>
    /\ exc = NoError
    /\ logged = NoError
    /\ preA = A
    /\ preSize = heap_size
    /\ phase = "new"
    /\ input = A
    /\ extracted = <<>>
    /\ refilled = 0

\* max_heapify(A, i)
DoMaxHeapify(i) ==
    /\ LET h == max_heapify(A, heap_size, i)
       IN  /\ A' = h.A
           /\ exc' = h.exc
    /\ Called("max_heapify", i, 0)
    /\ ret' = <<>>
    /\ logged' = NoError
    /\ Mixed
    /\ UNCHANGED <<heap_size, built>>

\* max_heapify on any live node.
MaxHeapify == \E i \in 0..(heap_size - 1) : DoMaxHeapify(i)

SpecHeapify == InitHeapify /\ [][MaxHeapify]_vars

\* The live nodes of the subtree rooted at i.
Subtree(i, hs) == {j \in 0..(hs - 1) : j >= i /\ i \in Ancestors(j)}

\* The max-heap property within the subtree rooted at i.
SubtreeIsMaxHeap(S, hs, i) ==
    \A j \in Subtree(i, hs) :
        /\ left(j) < hs => Get(S, j) >= Get(S, left(j))
        /\ right(j) < hs => Get(S, j) >= Get(S, right(j))

\* C14: when the subtrees under left(i) and right(i) are max-heaps within
\* [0, heap_size), max_heapify(A, i) returns with the subtree rooted at i a
\* max-heap, the list a permutation of what it was, and every slot outside
\* that subtree unchanged.
MaxHeapifyCorrect ==
    ( /\ op = "max_heapify"
      /\ SubtreeIsMaxHeap(preA, preSize, left(arg_index))
      /\ SubtreeIsMaxHeap(preA, preSize, right(arg_index)) ) =>
        /\ exc = NoError
        /\ heap_size = preSize
        /\ SubtreeIsMaxHeap(A, heap_size, arg_index)
        /\ Len(A) = Len(preA)
        /\ SameBag(A, preA)
        /\ \A s \in 0..(Len(A) - 1) :
              s \notin Subtree(arg_index, heap_size) => Get(A, s) = Get(preA, s)

\* C14 witness: the value at the root went down two levels.
MaxHeapifyWitness ==
    /\ op = "max_heapify"
    /\ arg_index = 0
    /\ SubtreeIsMaxHeap(preA, preSize, 1)
    /\ SubtreeIsMaxHeap(preA, preSize, 2)
    /\ preSize >= 4
    /\ Get(A, 0) # Get(preA, 0)
    /\ Get(A, 1) # Get(preA, 1)
    /\ Get(A, 3) = Get(preA, 0)

\* C15: max_heapify(A, i) leaves every slot at index >= heap_size as it was.
MaxHeapifyIgnoresTrailing ==
    op = "max_heapify" =>
        \A s \in heap_size..(Len(A) - 1) : Get(A, s) = Get(preA, s)

\* C15 witness: a swap happened under a node whose child slot lies past
\* heap_size and holds a value larger than every live element.
MaxHeapifyTrailingWitness ==
    /\ op = "max_heapify"
    /\ A # preA
    /\ right(arg_index) >= preSize
    /\ right(arg_index) < Len(preA)
    /\ \A s \in 0..(preSize - 1) : Get(preA, right(arg_index)) > Get(preA, s)

\* C16: max_heapify(A, i) swaps only for a strictly greater live child: if
\* A[i] >= each live child the list is unchanged, and when both children are
\* equal and strictly greater than A[i] the left one moves into slot i, so
\* the right child's subtree is untouched.
MaxHeapifyStrictLeftFirst ==
    op = "max_heapify" =>
        LET i == arg_index
            l == left(arg_index)
            r == right(arg_index)
        IN  /\ ( /\ l < preSize => Get(preA, i) >= Get(preA, l)
                 /\ r < preSize => Get(preA, i) >= Get(preA, r) ) => A = preA
            /\ ( /\ r < preSize
                 /\ Get(preA, l) = Get(preA, r)
                 /\ Get(preA, l) > Get(preA, i) ) =>
                   /\ Get(A, i) = Get(preA, l)
                   /\ \A s \in Subtree(r, preSize) : Get(A, s) = Get(preA, s)

\* C16 witness: both children equal and strictly greater than the node.
MaxHeapifyTieWitness ==
    /\ op = "max_heapify"
    /\ right(arg_index) < preSize
    /\ Get(preA, left(arg_index)) = Get(preA, right(arg_index))
    /\ Get(preA, left(arg_index)) > Get(preA, arg_index)

\* C16 witness, first half: a node equal to its larger child is left alone.
MaxHeapifyEqualWitness ==
    /\ op = "max_heapify"
    /\ right(arg_index) < preSize
    /\ Get(preA, arg_index) = Get(preA, left(arg_index))
    /\ A = preA

\* ================================ increase_key with an index that is not live
\* The index is negative or at or past heap_size; one step beyond either end
\* of the list is included.
IncreaseKeyOutside ==
    /\ built
    /\ \E index \in ((0 - Len(A)) - 1)..Len(A), newValue \in Values :
          /\ index < 0 \/ index >= heap_size
          /\ DoIncreaseKey(index, newValue)

NextMisuse == Next \/ IncreaseKeyOutside

\* As Spec, and increase_key may be given an index outside the live range.
SpecMisuse == Init /\ [][NextMisuse]_vars

\* C17: increase_key with an index outside [0, heap_size) either reports an
\* error or leaves the list and heap_size unchanged, and the live range holds
\* the same values after the call as before.
OutsideIndexRejected ==
    (op = "increase_key" /\ (arg_index < 0 \/ arg_index >= preSize)) =>
        /\ \/ exc # NoError
           \/ logged # NoError
           \/ A = preA /\ heap_size = preSize
        /\ Live(A, heap_size) = Live(preA, preSize)

RECURSIVE max_heapify_calls(_, _, _, _)
\* Faulty variant: after the swap the call is repeated on i, not on largest.
max_heapify_calls_same_node(S, hs, i, fuel) ==
    IF fuel = 0
    THEN <<>>
    ELSE LET l == left(i)
             r == right(i)
             largest1 == IF l < hs /\ Get(S, l) > Get(S, i) THEN l ELSE i
             largest == IF r < hs /\ Get(S, r) > Get(S, largest1) THEN r ELSE largest1
         IN  IF largest # i
             THEN <<i>> \o max_heapify_calls(Swap(S, i, largest), hs, i, fuel - 1)
             ELSE <<i>>

max_heapify_calls(S, hs, i, fuel) ==
    IF fuel = 0
    THEN <<>>
    ELSE LET l == left(i)
             r == right(i)
         IN  IF l < hs /\ ~(InRange(S, l) /\ InRange(S, i))
             THEN <<i>>
             ELSE LET largest1 == IF l < hs /\ Get(S, l) > Get(S, i) THEN l ELSE i
                  IN  IF r < hs /\ ~(InRange(S, r) /\ InRange(S, largest1))
                      THEN <<i>>
                      ELSE LET largest == IF r < hs /\ Get(S, r) > Get(S, largest1)
                                          THEN r ELSE largest1
                           IN  IF largest # i
                               THEN <<i>> \o max_heapify_calls(Swap(S, i, largest), hs,
                                                              largest, fuel - 1)
                               ELSE <<i>>

\* The nodes build_max_heap calls max_heapify on: range(heap_size // 2 - 1, -1, -1).
build_calls(hs) ==
    [k \in 1..(IF hs \div 2 > 0 THEN hs \div 2 ELSE 0) |-> hs \div 2 - k]

\* The successive values of index in increase_key's while loop, the value it
\* starts with included; at most `fuel` of them are followed.
RECURSIVE sift_up_indices(_, _, _)
sift_up_indices(S, index, fuel) ==
    IF fuel = 0
    THEN <<>>
    ELSE IF index > 0 /\ Truthy(Get(S, BoolIndex(parent(index) < Get(S, index))))
         THEN <<index>> \o sift_up_indices(Swap(S, index, parent(index)),
                                          parent(index), fuel - 1)
         ELSE <<index>>

\* Any list with any heap_size up to its length; then any of the three
\* operations that loop or recurse.
NextSteps == MaxHeapify \/ Build \/ IncreaseKey

InitSteps == InitHeapify /\ Len(A) <= MaxStepsLen

SpecSteps == InitSteps /\ [][NextSteps]_vars

\* Level of node i in the tree: 0 for the root.
RECURSIVE Depth(_)
Depth(i) == IF i <= 0 THEN 0 ELSE 1 + Depth(parent(i))

StrictlyIncreasing(s) == \A m, n \in DOMAIN s : m < n => s[m] < s[n]

StrictlyDecreasing(s) == \A m, n \in DOMAIN s : m < n => s[m] > s[n]

\* C19: every operation runs to completion in a bounded number of steps.
\* max_heapify's nested calls go to strictly increasing nodes and number at
\* most the levels between i and the last live node; build_max_heap makes
\* heap_size // 2 max_heapify calls on strictly decreasing nodes down to 0;
\* increase_key's loop visits strictly decreasing indices, at most one per
\* level above index.  The value being moved ends at the last node listed.
OperationsTerminate ==
    /\ op = "max_heapify" =>
          LET c == max_heapify_calls(preA, preSize, arg_index, StepLimit)
          IN  /\ exc = NoError
              /\ StrictlyIncreasing(c)
              /\ Len(c) >= 1
              /\ Len(c) <= Depth(preSize - 1) - Depth(arg_index) + 1
              /\ Get(A, c[Len(c)]) = Get(preA, arg_index)
    /\ op = "build_max_heap" =>
          LET b == build_calls(preSize)
          IN  /\ exc = NoError
              /\ Len(b) = preSize \div 2
              /\ StrictlyDecreasing(b)
              /\ \A k \in DOMAIN b : 0 <= b[k] /\ b[k] < preSize
              /\ Len(b) >= 1 => b[Len(b)] = 0
    /\ (op = "increase_key" /\ logged = NoError) =>
          LET u == sift_up_indices(Set(preA, arg_index, arg_value), arg_index, StepLimit)
          IN  /\ exc = NoError
              /\ StrictlyDecreasing(u)
              /\ Len(u) >= 1
              /\ Len(u) <= Depth(arg_index) + 1
              /\ Get(A, u[Len(u)]) = arg_value

\* C19 witness: a sift-down that made the most nested calls the heap allows.
OperationsTerminateWitness ==
    /\ op = "max_heapify"
    /\ arg_index = 0
    /\ preSize >= 4
    /\ Len(max_heapify_calls(preA, preSize, arg_index, StepLimit)) = 3

\* ========================================================= index arithmetic
\* left(i), right(i) and parent(i) computed for a node index; the three
\* results are recorded in ret, in that order.
IndexArithmetic ==
    /\ \E i \in 0..MaxIndex :
          /\ Called("index", i, 0)
          /\ ret' = <<left(i), right(i), parent(i)>>
    /\ exc' = NoError
    /\ logged' = NoError
    /\ UNCHANGED <<A, heap_size, built, phase, input, extracted, refilled>>

SpecIndex == Init /\ [][IndexArithmetic]_vars

\* C20: for every i >= 0, left(i) = 2i+1, right(i) = 2i+2 and the parent of
\* either child is i; for every i >= 1, parent(i) = floor((i-1)/2) is a
\* non-negative index strictly smaller than i.
IndexRelations ==
    op = "index" =>
        LET i == arg_index
        IN  /\ ret[1] = 2 * i + 1
            /\ ret[2] = 2 * i + 2
            /\ parent(ret[1]) = i
            /\ parent(ret[2]) = i
            /\ i >= 1 =>
                  /\ 2 * ret[3] <= i - 1
                  /\ i - 1 < 2 * ret[3] + 2
                  /\ ret[3] >= 0
                  /\ ret[3] < i

\* C20 witness: a right child two or more levels down.
IndexRelationsWitness ==
    /\ op = "index"
    /\ arg_index >= 6
    /\ arg_index = right(ret[3])

====
